---- MODULE Spec2Model ----
(***************************************************************************)
(* Model of the ESPN rugby spider (scraper/rugby/spiders/espn.py).         *)
(*                                                                         *)
(* Two state machines are modelled:                                        *)
(*   - the crawl: start_requests and the match_list_parse callback, with   *)
(*     the shared list `categories` and the search requests in flight;     *)
(*   - the extraction of one match page by _match_iframe_parse, a          *)
(*     generator whose stages are taken one after the other.               *)
(***************************************************************************)
EXTENDS Integers, Sequences, FiniteSets, TLC

VARIABLES
    categories,   \* ESPN.categories, the list of categories still paginated
    inflight,     \* search requests issued and not yet answered
    requested,    \* per category, the pages requested so far, in order
    closed,       \* CloseSpider has been raised
    out,          \* what the last callback of the crawl did and yielded
    pc,           \* position of _match_iframe_parse
    match,        \* response.meta["match"]
    emitted,      \* items and requests yielded by _match_iframe_parse so far
    match_stats,  \* the local dict match_stats
    player_dict,  \* the local dict player_dict
    tabs,         \* the tabs of the match page: their rows, by title
    raised,       \* an exception left _match_iframe_parse
    stage         \* what the last stage of _match_iframe_parse read and did

crawlVars == <<categories, inflight, requested, closed, out>>
matchVars == <<pc, match, emitted, match_stats, player_dict, tabs, raised, stage>>
vars == <<categories, inflight, requested, closed, out,
          pc, match, emitted, match_stats, player_dict, tabs, raised, stage>>

\* ------------------------------------------------------------------------
\* Bounds of the model

\* last page number a category can serve
MaxPage == 3
\* most match link blocks (and table rows) on one list page
MaxBlocks == 2
\* most leading UI link blocks on one list page
MaxUI == 2

\* ------------------------------------------------------------------------
\* Helpers

Range(s) == {s[i] : i \in 1..Len(s)}

SeqsUpTo(S, n) == UNION {[1..k -> S] : k \in 0..n}

\* list.remove(x) on a list holding x: drops the first occurrence
RECURSIVE ListRemove(_, _)
ListRemove(s, x) ==
    IF s = <<>> THEN <<>>
    ELSE IF Head(s) = x THEN Tail(s)
    ELSE <<Head(s)>> \o ListRemove(Tail(s), x)

\* ------------------------------------------------------------------------
\* Text: a str is a sequence of one-character strings

LowerCase == <<"a", "b", "c", "d", "e", "f", "g", "h", "i", "j", "k", "l", "m",
               "n", "o", "p", "q", "r", "s", "t", "u", "v", "w", "x", "y", "z">>
UpperCase == <<"A", "B", "C", "D", "E", "F", "G", "H", "I", "J", "K", "L", "M",
               "N", "O", "P", "Q", "R", "S", "T", "U", "V", "W", "X", "Y", "Z">>
Digits == <<"0", "1", "2", "3", "4", "5", "6", "7", "8", "9">>

DigitChars == Range(Digits)
LetterChars == Range(LowerCase) \cup Range(UpperCase)

IsDigit(c) == c \in DigitChars
IsLetter(c) == c \in LetterChars
IsSpace(c) == c \in {" ", "\n", "\t"}
\* the regex class \w
IsWord(c) == IsLetter(c) \/ IsDigit(c) \/ c = "_"

DigitVals == [c \in DigitChars |-> (CHOOSE i \in 1..Len(Digits) : Digits[i] = c) - 1]

\* str.upper()
ToUpper ==
    [c \in Range(LowerCase) |->
        UpperCase[CHOOSE i \in 1..Len(LowerCase) : LowerCase[i] = c]]
Upper(s) == [i \in 1..Len(s) |-> IF s[i] \in DOMAIN ToUpper THEN ToUpper[s[i]] ELSE s[i]]

\* str.lower()
ToLower ==
    [c \in Range(UpperCase) |->
        LowerCase[CHOOSE i \in 1..Len(UpperCase) : UpperCase[i] = c]]
Lower(s) == [i \in 1..Len(s) |-> IF s[i] \in DOMAIN ToLower THEN ToLower[s[i]] ELSE s[i]]

\* str.lstrip(), str.rstrip(), str.strip()
RECURSIVE LStrip(_)
LStrip(s) ==
    IF s # <<>> /\ IsSpace(Head(s)) THEN LStrip(Tail(s)) ELSE s
RECURSIVE RStrip(_)
RStrip(s) ==
    IF s # <<>> /\ IsSpace(s[Len(s)]) THEN RStrip(SubSeq(s, 1, Len(s) - 1)) ELSE s
Strip(s) == RStrip(LStrip(s))

\* s.startswith(p)
StartsWith(s, p) == Len(p) <= Len(s) /\ SubSeq(s, 1, Len(p)) = p

\* `sub in s` for two strs
Contains(sub, s) ==
    \E i \in 1..(Len(s) + 1) : StartsWith(SubSeq(s, i, Len(s)), sub)

\* s.split(sep) for a non-empty separator: the list of pieces
RECURSIVE SplitFrom(_, _, _)
SplitFrom(s, sep, piece) ==
    IF s = <<>> THEN <<piece>>
    ELSE IF StartsWith(s, sep)
    THEN <<piece>> \o SplitFrom(SubSeq(s, Len(sep) + 1, Len(s)), sep, <<>>)
    ELSE SplitFrom(Tail(s), sep, Append(piece, Head(s)))
Split(s, sep) == SplitFrom(s, sep, <<>>)

\* the longest prefix of s made of digits
RECURSIVE DigitPrefix(_)
DigitPrefix(s) ==
    IF s # <<>> /\ IsDigit(Head(s)) THEN <<Head(s)>> \o DigitPrefix(Tail(s)) ELSE <<>>

\* int(s) for a str of digits
RECURSIVE IntOfDigits(_)
IntOfDigits(s) ==
    IF s = <<>> THEN 0
    ELSE 10 * IntOfDigits(SubSeq(s, 1, Len(s) - 1)) + DigitVals[s[Len(s)]]

\* int(s) raises ValueError unless s, stripped, is a run of digits
IsInt(s) ==
    LET t == Strip(s) IN t # <<>> /\ \A i \in 1..Len(t) : IsDigit(t[i])
PyInt(s) == IntOfDigits(Strip(s))

\* ------------------------------------------------------------------------
\* _match_iframe_parse not running (the crawl is modelled on its own)

NoStage == [name |-> "none", items |-> <<>>]

IdleMatch ==
    /\ pc = "idle"
    /\ match = [keys |-> {}]
    /\ emitted = <<>>
    /\ match_stats = [scored |-> 0, conceded |-> 0]
    /\ player_dict = [home |-> <<>>, away |-> <<>>]
    /\ tabs = <<>>
    /\ raised = FALSE
    /\ stage = NoStage

\* ------------------------------------------------------------------------
\* The crawl

\* ESPN.categories: 1 is "home", 3 is "neutral"
InitCategories == <<1, 3>>

\* ESPN.follow_pages
follow_pages == TRUE

\* _generate_search_request(page, home_or_away): the request's meta
SearchRequest(page, home_or_away) ==
    [home_or_away |-> home_or_away, page |-> page]

\* The fields of a Match filled from the side-menu link block
LinkFields == {"id", "home_team_id", "away_team_id", "ground_id"}

\* The fields of a Match filled from the table row
RowFields == {"won", "date"}

\* Every field of a Match (line 136 for match_type)
MatchFields == LinkFields \cup RowFields \cup {"match_type"}

\* A list page, as far as match_list_parse reads it:
\*   norecords  the page has exactly one tr.data1 row and the bold text of
\*              that row contains "No records" (the row then has no "won"
\*              and no "date" cell);
\*   ui         the number of .engine-dd blocks of the UI, which come first;
\*   entries    the matches listed: entry k is the link block #engine-ddk
\*              with the table row k, given as the set of Match fields the
\*              page does not provide for it.
EntryKinds == {{}} \cup {{f} : f \in LinkFields \cup RowFields}
PagesOf(kinds) ==
    [norecords : BOOLEAN,
     ui : 0..MaxUI,
     entries : SeqsUpTo(kinds, MaxBlocks)]

\* every list page within the bounds
ListPages == PagesOf(EntryKinds)

\* the list pages served during the crawl: an entry is complete or lacks
\* its match id
CrawlPages == PagesOf({{}, {"id"}})

\* lines 90-93: exactly one tr.data1 row, whose bold text has "No records"
NoRecords(page) == page.norecords

\* lines 126-138: the Match loaded from link block #k and table row #k; a
\* field with nothing extracted is not set
LoadMatch(page, k, home_or_away) ==
    LET there == k \in 1..Len(page.entries)
        links == IF there THEN LinkFields \ page.entries[k] ELSE {}
        cells == IF there /\ ~page.norecords
                 THEN RowFields \ page.entries[k] ELSE {}
    IN  [keys |-> links \cup cells \cup {"match_type"},
         id |-> IF "id" \in links THEN k ELSE 0,
         match_type |-> home_or_away]

\* line 140: the fields a match must have to be followed
RequiredFields ==
    {"id", "home_team_id", "away_team_id", "match_type", "won", "date"}

\* line 140: the match is skipped
MissingIDs(m) == \E k \in RequiredFields : k \notin m.keys

\* lines 122-123: `if not offset: offset = index - 1` (offset is a list here:
\* empty for None)
NewOffset(offset, index) ==
    IF offset = <<>> \/ offset[1] = 0 THEN <<index - 1>> ELSE offset

\* lines 117-150: the loop over the .engine-dd blocks; yields the matches
\* whose page is followed, with the link block and row they were read from
RECURSIVE ListLoop(_, _, _, _)
ListLoop(page, home_or_away, index, offset) ==
    IF index >= page.ui + Len(page.entries) THEN <<>>
    ELSE IF index < page.ui
    THEN ListLoop(page, home_or_away, index + 1, offset)
    ELSE LET off == NewOffset(offset, index)
             k == index - off[1]
             m == LoadMatch(page, k, home_or_away)
         IN  (IF MissingIDs(m) THEN <<>>
              ELSE <<[match |-> m, block |-> index - page.ui + 1, read |-> k]>>)
             \o ListLoop(page, home_or_away, index + 1, off)

\* line 95: self.categories.remove(...)
RemoveCategory_All(cats, c) == <<>>
RemoveCategory(cats, c) == ListRemove(cats, c)

\* line 98: all categories have been scraped
AllScraped(cats) == Len(cats) = 0

\* line 156
NextPage_Same(page) == page
NextPage(page) == page + 1

\* a variant that never asks for the next page
FollowUp_None(cats, req) == {}

\* lines 153-158: the next search request, if any
FollowUp(cats, req) ==
    IF follow_pages /\ req.home_or_away \in Range(cats)
    THEN {SearchRequest(NextPage(req.page), req.home_or_away)}
    ELSE {}

\* lines 97-158: what the callback yields once the "No records" check is
\* done, cats being self.categories by then: nothing if CloseSpider is
\* raised, else the match pages to follow and the next search request
Yields_Unchecked(cats, req, page) ==
    [close |-> FALSE,
     follow |-> ListLoop(page, req.home_or_away, 0, <<>>),
     search |-> {SearchRequest(NextPage(req.page), req.home_or_away)}]
Yields(cats, req, page) ==
    IF AllScraped(cats)
    THEN [close |-> TRUE, follow |-> <<>>, search |-> {}]
    ELSE [close |-> FALSE,
          follow |-> ListLoop(page, req.home_or_away, 0, <<>>),
          search |-> FollowUp(cats, req)]

NoOut ==
    [op |-> "none", req |-> SearchRequest(0, 0), page |-> [norecords |-> FALSE, ui |-> 0, entries |-> <<>>],
     before |-> <<>>, search |-> {}, follow |-> <<>>, error |-> FALSE]

\* lines 71-82
StartRequests ==
    /\ out.op = "none"
    /\ inflight' = {SearchRequest(1, c) : c \in Range(categories)}
    /\ requested' = [c \in Range(InitCategories) |->
                        IF c \in Range(categories) THEN <<1>> ELSE <<>>]
    /\ out' = [NoOut EXCEPT !.op = "start", !.before = categories,
                            !.search = inflight']
    /\ UNCHANGED <<categories, closed>>
    /\ UNCHANGED matchVars

\* lines 84-158: the callback, on the response to request req with content
\* page. list.remove raises ValueError when the category is not in the list,
\* and nothing is yielded then. A category serves "No records" at page MaxPage
\* at the latest.
MatchListParse(req, page) ==
    LET marker == NoRecords(page)
        error == marker /\ req.home_or_away \notin Range(categories)
        cats == IF marker /\ ~error
                THEN RemoveCategory(categories, req.home_or_away)
                ELSE categories
        y == IF error
             THEN [close |-> FALSE, follow |-> <<>>, search |-> {}]
             ELSE Yields(cats, req, page)
    IN  /\ req \in inflight
        /\ req.page < MaxPage \/ marker
        /\ categories' = cats
        /\ closed' = (closed \/ y.close)
        /\ inflight' = (inflight \ {req}) \cup y.search
        /\ requested' = [c \in DOMAIN requested |->
                            requested[c] \o
                            IF \E s \in y.search : s.home_or_away = c
                            THEN <<(CHOOSE s \in y.search : s.home_or_away = c).page>>
                            ELSE <<>>]
        /\ out' = [op |-> "list", req |-> req, page |-> page,
                   before |-> categories, search |-> y.search,
                   follow |-> y.follow, error |-> error]
        /\ UNCHANGED matchVars

Next ==
    \/ StartRequests
    \/ \E req \in inflight : \E page \in CrawlPages : MatchListParse(req, page)

\* ------------------------------------------------------------------------
\* match_list_parse on one list page, for every page within the bounds: the
\* response is drawn first, then the callback handles it

ListInit ==
    /\ IdleMatch
    /\ categories = InitCategories
    /\ requested = [c \in Range(InitCategories) |-> <<1>>]
    /\ closed = FALSE
    /\ inflight = {SearchRequest(1, c) : c \in Range(InitCategories)}
    /\ \E c \in Range(InitCategories) :
          /\ \E page \in ListPages : out = [NoOut EXCEPT !.op = "response",
                                                        !.req = SearchRequest(1, c),
                                                        !.page = page]

ListParse ==
    /\ out.op = "response"
    /\ MatchListParse(out.req, out.page)

Init ==
    /\ categories = InitCategories
    /\ inflight = {}
    /\ requested = [c \in Range(InitCategories) |-> <<>>]
    /\ closed = FALSE
    /\ out = NoOut
    /\ IdleMatch

Spec == Init /\ [][Next]_vars

\* The crawl as the engine schedules it: start_requests is called, and as
\* long as a search request is outstanding one of them is answered in the
\* end. A category serves
\* "No records" at page MaxPage at the latest (the guard of MatchListParse).
SpecLive ==
    /\ Init /\ [][Next]_vars
    /\ WF_vars(Next)

SpecList == ListInit /\ [][ListParse]_vars

\* ------------------------------------------------------------------------
\* _get_player_id_from_name. A roster (team_dic) is the list of its entries
\* [id, name] in insertion order; the result is <<id>>, or <<>> when
\* RuntimeError is raised.

LastOf(list) == list[Len(list)]

\* lines 204-209
Potential(name, team_dic) ==
    SelectSeq(team_dic,
              LAMBDA e : Contains(LastOf(Split(name, <<" ">>)),
                                  LastOf(Split(Strip(Upper(e.name)), <<" ">>))))

\* lines 221-228
Final(name, potential) ==
    SelectSeq(potential,
              LAMBDA e :
                LET potential_name == Strip(Upper(e.name))
                IN  /\ Split(potential_name, <<" ">>)[1][1] = Split(name, <<" ">>)[1][1]
                    /\ LastOf(Split(potential_name, <<" ">>)) = LastOf(Split(name, <<" ">>)))

AllEqual(list) == \A i \in 1..Len(list) : list[i].id = list[1].id

\* a variant that returns the first candidate
GetPlayerIdFromName_First(researched, team_dic) ==
    IF Potential(Strip(Upper(researched)), team_dic) = <<>> THEN <<>>
    ELSE <<Potential(Strip(Upper(researched)), team_dic)[1].id>>

\* lines 198-235
GetPlayerIdFromName(researched, team_dic) ==
    LET name == Strip(Upper(researched))
        potential == Potential(name, team_dic)
        final == Final(name, potential)
    IN  IF Len(potential) = 0 THEN <<>>
        ELSE IF Len(potential) = 1 THEN <<potential[1].id>>
        ELSE IF AllEqual(potential) THEN <<potential[1].id>>
        ELSE IF Len(Split(name, <<" ">>)) = 1 THEN <<>>
        ELSE IF Len(final) = 1 THEN <<final[1].id>>
        ELSE IF final # <<>> /\ AllEqual(final) THEN <<final[1].id>>
        ELSE <<>>

\* ------------------------------------------------------------------------
\* The extraction of one match page: _match_iframe_parse

\* The matches match_list_parse forwards (line 149): every field it requires
\* is set; the others may be missing
ForwardedMatches ==
    {[keys |-> K, id |-> 7, home_team_id |-> 1, away_team_id |-> 2,
      ground_id |-> 5, match_type |-> 1] :
        K \in {K \in SUBSET MatchFields : RequiredFields \subseteq K}}

\* item[key] of a scrapy Item raises KeyError when the field is not set
HasField(m, key) == key \in m.keys

\* The text nodes of td.liveSubNavText1 on the pages examined:
\*   []
\*   ['W 2 - E 1']
\*   ['W 2 - 1']
\*   ['2 - E 1']
\*   ['W 2 - E']
\*   ['W 2']
\*   ['W 2 - E 1 - X 3']
\*   ['W 2 ', '- E 1']
\*   ['W 2 -', ' E 1\n']
\*   ['N Z 12 - E 0']
HeadlineTokens ==
    {<<>>,
     <<<<"W", " ", "2", " ", "-", " ", "E", " ", "1">>>>,
     <<<<"W", " ", "2", " ", "-", " ", "1">>>>,
     <<<<"2", " ", "-", " ", "E", " ", "1">>>>,
     <<<<"W", " ", "2", " ", "-", " ", "E">>>>,
     <<<<"W", " ", "2">>>>,
     <<<<"W", " ", "2", " ", "-", " ", "E", " ", "1", " ", "-", " ", "X", " ", "3">>>>,
     <<<<"W", " ", "2", " ">>, <<"-", " ", "E", " ", "1">>>>,
     <<<<"W", " ", "2", " ", "-">>, <<" ", "E", " ", "1", "\n">>>>,
     <<<<"N", " ", "Z", " ", "1", "2", " ", "-", " ", "E", " ", "0">>>>}

\* most liveTblNotes links on a match page
MaxNotes == 2

\* line 492: the text nodes, right-stripped and without newlines, joined and
\* split on " - "
RECURSIVE JoinTokens(_)
JoinTokens(tokens) ==
    IF tokens = <<>> THEN <<>>
    ELSE SelectSeq(RStrip(Head(tokens)), LAMBDA c : c # "\n")
         \o JoinTokens(Tail(tokens))
Headlines(tokens) == Split(JoinTokens(tokens), <<" ", "-", " ">>)

\* line 501: regex.findall("([a-zA-Z ]+)", headline), as the list of the
\* first match (empty when there is none)
RECURSIVE NameRun(_)
NameRun(s) ==
    IF s # <<>> /\ (IsLetter(Head(s)) \/ Head(s) = " ")
    THEN <<Head(s)>> \o NameRun(Tail(s)) ELSE <<>>
RECURSIVE FindName(_)
FindName(s) ==
    IF s = <<>> THEN <<>>
    ELSE IF NameRun(s) # <<>> THEN <<NameRun(s)>>
    ELSE FindName(Tail(s))

\* line 502: regex.findall("(\d+)(?!G)", headline), as the list of the first
\* match: a run of digits not followed by "G", shortened by one digit when
\* the whole run is
RECURSIVE FindScore(_)
FindScore(s) ==
    IF s = <<>> THEN <<>>
    ELSE LET run == DigitPrefix(s)
             rest == SubSeq(s, Len(run) + 1, Len(s))
         IN  IF run = <<>> THEN FindScore(Tail(s))
             ELSE IF rest = <<>> \/ Head(rest) # "G" THEN <<run>>
             ELSE IF Len(run) > 1 THEN <<SubSeq(run, 1, Len(run) - 1)>>
             ELSE FindScore(rest)

\* line 503
HeadlineError(headline) ==
    FindName(headline) = <<>> \/ FindScore(headline) = <<>>

\* the kind and team of the items, as recorded in `emitted`
Log(items) ==
    [i \in 1..Len(items) |->
        [kind |-> items[i].kind,
         team_id |-> IF "team_id" \in DOMAIN items[i] THEN items[i].team_id ELSE 0]]

\* lines 508-513
TeamItem(id, name) == [kind |-> "Team", id |-> id, name |-> Strip(name)]

\* lines 525-531 and 715-722
MatchStatsItem(m, team_id, scored, conceded, summary) ==
    [kind |-> "MatchStats", match_id |-> m.id, team_id |-> team_id,
     scored |-> scored, conceded |-> conceded, summary |-> summary]

\* A stage ends: its items are yielded; the generator goes on to `next`, or
\* returns, or an exception leaves it
EndStage(name, input, items, next, exc) ==
    /\ stage' = [name |-> name, input |-> input, items |-> items]
    /\ emitted' = emitted \o Log(items)
    /\ raised' = exc
    /\ pc' = IF exc THEN "done" ELSE next

\* lines 474-490: no headline text, the match is skipped; exactly two notes,
\* a Venue is yielded
VenueItems(m, notes) ==
    IF notes = 2
    THEN <<[kind |-> "Venue", id |-> m.ground_id, name |-> <<"n">>]>>
    ELSE <<>>

Venue(tokens, notes) ==
    /\ pc = "venue"
    /\ IF tokens = <<>>
       THEN EndStage("venue", tokens, <<>>, "done", FALSE)
       ELSE IF notes = 2 /\ ~HasField(match, "ground_id")
       THEN EndStage("venue", tokens, <<>>, "done", TRUE)
       ELSE EndStage("venue", tokens, VenueItems(match, notes), "headline", FALSE)
    /\ UNCHANGED <<match, match_stats, player_dict, tabs>>
    /\ UNCHANGED crawlVars

\* lines 499-517: the Team items yielded, up to the first headline in error
RECURSIVE HeadlineTeams(_, _, _)
HeadlineTeams(m, headlines, i) ==
    IF i > Len(headlines) \/ HeadlineError(headlines[i]) THEN <<>>
    ELSE <<TeamItem(IF i = 1 THEN m.home_team_id ELSE m.away_team_id,
                    FindName(headlines[i])[1])>>
         \o HeadlineTeams(m, headlines, i + 1)

\* a variant that stores the first score under both keys
HeadlineScores_First(headlines) ==
    [scored |-> PyInt(FindScore(headlines[1])[1]),
     conceded |-> PyInt(FindScore(headlines[1])[1])]

\* lines 494-517: match_stats after the loop
HeadlineScores(headlines) ==
    LET ok(i) == \A j \in 1..i : ~HeadlineError(headlines[j])
        score(i) == PyInt(FindScore(headlines[i])[1])
    IN  [scored |-> IF ok(1) THEN score(1) ELSE 0,
         conceded |-> IF ok(2) THEN score(2) ELSE 0]

\* lines 492-535: the items of the headline, and whether parsing goes on
HeadlineStage(m, tokens) ==
    LET headlines == Headlines(tokens)
        scores == HeadlineScores(headlines)
        error == \E i \in 1..Len(headlines) : HeadlineError(headlines[i])
    IN  IF Len(headlines) # 2
        THEN [items |-> <<>>, ok |-> FALSE,
              match_stats |-> [scored |-> 0, conceded |-> 0]]
        ELSE IF error
        THEN [items |-> HeadlineTeams(m, headlines, 1), ok |-> FALSE,
              match_stats |-> scores]
        ELSE [items |->
                HeadlineTeams(m, headlines, 1)
                \o <<[kind |-> "Match", id |-> m.id, keys |-> m.keys]>>
                \o <<MatchStatsItem(m, m.home_team_id, scores.scored, scores.conceded, <<>>),
                     MatchStatsItem(m, m.away_team_id, scores.conceded, scores.scored, <<>>)>>,
              ok |-> TRUE, match_stats |-> scores]

Headline ==
    /\ pc = "headline"
    /\ LET h == HeadlineStage(match, stage.input)
       IN  /\ EndStage("headline", stage.input, h.items,
                       IF h.ok THEN "teams" ELSE "done", FALSE)
           /\ match_stats' = h.match_stats
    /\ UNCHANGED <<match, player_dict, tabs>>
    /\ UNCHANGED crawlVars

\* The titles of the tabs a match page may have: "Teams", "Match stats" and
\* "W stats" (the player statistics of team W)
TeamsTitle == <<"T", "e", "a", "m", "s">>
MatchStatsTitle == <<"M", "a", "t", "c", "h", " ", "s", "t", "a", "t", "s">>
TeamStatsTitle == <<"W", " ", "s", "t", "a", "t", "s">>
TabTitles == {TeamsTitle, MatchStatsTitle, TeamStatsTitle}

\* the order of the tabs on a page
TabOrder == <<TeamsTitle, MatchStatsTitle, TeamStatsTitle>>

\* lines 538-544: the tabs indexed by title, `stats` being the table rows of
\* the "Match stats" tab and `players` those of the "W stats" tab
TabsOf(titles, stats, players) ==
    [t \in titles |-> IF t = MatchStatsTitle THEN stats
                      ELSE IF t = TeamStatsTitle THEN players
                      ELSE <<>>]

\* most player rows in one team's line-up
MaxRows == 2

\* The names of the line-up links, by team and row:
\*   home: "J Sa", "Ball", "Sab"     away: "K Sa", "T", "Ab"
LineupNames ==
    [home |-> <<<<"J", " ", "S", "a">>, <<"B", "a", "l", "l">>, <<"S", "a", "b">>>>,
     away |-> <<<<"K", " ", "S", "a">>, <<"T">>, <<"A", "b">>>>]
RowName(side, i) == LineupNames[side][((i - 1) % 3) + 1]

\* the player id in the href of the line-up link of row i
RowId(side, i) == (IF side = "home" THEN 10 ELSE 20) + i

\* A line-up as read by lines 564-574: for each player row, whether the
\* link has a numeric id in its href and whether it has a text. The first
\* row is in the first table (the starting line-up), the others in the
\* second (the replacements).
Rows == [id : BOOLEAN, name : BOOLEAN]
Lineups == SeqsUpTo(Rows, MaxRows)

Side(index) == IF index = 0 THEN "home" ELSE "away"
TeamId(m, index) == IF index = 0 THEN m.home_team_id ELSE m.away_team_id

\* lines 576-577: "Discard players without id"
RowDiscarded(row) == ~row.id /\ ~row.name

\* lines 569-605 for one player row: the items yielded, the roster entry
\* added and whether KeyError is raised (player_info["id"] at line 581,
\* player_info["name"] at line 604)
PlayerRow(m, index, i, row) ==
    LET id == RowId(Side(index), i)
    IN  IF RowDiscarded(row)
        THEN [items |-> <<>>, entry |-> <<>>, exc |-> FALSE]
        ELSE IF ~row.id
        THEN [items |-> <<>>, entry |-> <<>>, exc |-> TRUE]
        ELSE [items |->
                <<[kind |-> "PlayerRequest", id |-> id],
                  [kind |-> "PlayerStats", player_id |-> id,
                   team_id |-> TeamId(m, index), match_id |-> m.id,
                   first_team |-> (i = 1), scores |-> <<>>]>>,
              entry |-> IF row.name
                        THEN <<[id |-> id, name |-> RowName(Side(index), i)]>>
                        ELSE <<>>,
              exc |-> ~row.name]

\* lines 564-605: the loop over the rows of one line-up, from row i
RECURSIVE LineupLoop(_, _, _, _)
LineupLoop(m, index, lineup, i) ==
    IF i > Len(lineup) THEN [items |-> <<>>, roster |-> <<>>, exc |-> FALSE]
    ELSE LET r == PlayerRow(m, index, i, lineup[i])
             rest == IF r.exc
                     THEN [items |-> <<>>, roster |-> <<>>, exc |-> TRUE]
                     ELSE LineupLoop(m, index, lineup, i + 1)
         IN  [items |-> r.items \o rest.items,
              roster |-> r.entry \o rest.roster,
              exc |-> rest.exc]

\* lines 537-611: the Teams tab
TeamsStage(m, titles, lineups) ==
    LET none == [items |-> <<>>, player_dict |-> [home |-> <<>>, away |-> <<>>],
                 exc |-> FALSE, ok |-> FALSE]
        h == LineupLoop(m, 0, lineups[1], 1)
        a == IF h.exc
             THEN [items |-> <<>>, roster |-> <<>>, exc |-> TRUE]
             ELSE LineupLoop(m, 1, lineups[2], 1)
    IN  IF titles = {} \/ TeamsTitle \notin titles \/ Len(lineups) < 2 THEN none
        ELSE [items |-> h.items \o a.items,
              player_dict |-> [home |-> h.roster, away |-> a.roster],
              exc |-> a.exc,
              ok |-> ~a.exc /\ h.roster # <<>> /\ a.roster # <<>>]

TeamsEnd(lineups, t) ==
    /\ EndStage("teams", lineups, t.items, IF t.ok THEN "scorers" ELSE "done", t.exc)
    /\ player_dict' = t.player_dict

Teams(titles, lineups, stats, players) ==
    /\ pc = "teams"
    /\ TeamsEnd(lineups, TeamsStage(match, titles, lineups))
    /\ tabs' = TabsOf(titles, stats, players)
    /\ UNCHANGED <<match, match_stats>>
    /\ UNCHANGED crawlVars

\* ------------------------------------------------------------------------
\* The scorers summary of the Teams tab (lines 613-722)

\* line 630: the supported event types, and their text
ScoreTypes == <<"tries", "cons", "pens", "drops">>
TypeText ==
    [tries |-> <<"t", "r", "i", "e", "s">>, cons |-> <<"c", "o", "n", "s">>, pens |-> <<"p", "e", "n", "s">>, drops |-> <<"d", "r", "o", "p", "s">>]

\* line 629: item.rstrip().replace("\n", "")
Clean(item) == SelectSeq(RStrip(item), LAMBDA c : c # "\n")

\* line 630: the event type of a label, "" if it is not supported
EventType(label) ==
    IF \E i \in 1..Len(ScoreTypes) : TypeText[ScoreTypes[i]] = Lower(Clean(label))
    THEN ScoreTypes[CHOOSE i \in 1..Len(ScoreTypes) :
                        TypeText[ScoreTypes[i]] = Lower(Clean(label))]
    ELSE ""

\* line 641: regex.split("\,(?! \d)", event_data): the pieces between the
\* commas that are not followed by a space and a digit
RECURSIVE SplitEvents(_, _)
SplitEvents(s, piece) ==
    IF s = <<>> THEN <<piece>>
    ELSE IF Head(s) = "," /\ ~(Len(s) >= 3 /\ s[2] = " " /\ IsDigit(s[3]))
    THEN <<piece>> \o SplitEvents(Tail(s), <<>>)
    ELSE SplitEvents(Tail(s), Append(piece, Head(s)))

\* line 654, group 1: (?:[\w\-\' ](?!\d))+, the number of characters matched
\* from position i
RECURSIVE NameLen(_, _)
NameLen(s, i) ==
    IF /\ i <= Len(s)
       /\ (IsWord(s[i]) \/ s[i] \in {"-", "'", " "})
       /\ ~(i + 1 <= Len(s) /\ IsDigit(s[i + 1]))
    THEN 1 + NameLen(s, i + 1)
    ELSE 0

\* line 654: " *", the text left after the spaces
RECURSIVE SkipSpaces(_)
SkipSpaces(s) == IF s # <<>> /\ Head(s) = " " THEN SkipSpaces(Tail(s)) ELSE s

\* line 654: [, ]*
RECURSIVE SkipSeparators(_)
SkipSeparators(s) ==
    IF s # <<>> /\ Head(s) \in {",", " "} THEN SkipSeparators(Tail(s)) ELSE s

\* line 654: (?:(\d+)[, ]*)*\) from the text after "(": the captures of
\* group 3 and the text left, if the parenthesis closes
RECURSIVE ParenBody(_)
ParenBody(s) ==
    LET d == DigitPrefix(s)
    IN  IF d # <<>>
        THEN LET r == ParenBody(SkipSeparators(SubSeq(s, Len(d) + 1, Len(s))))
             IN  [ok |-> r.ok, times |-> <<d>> \o r.times, rest |-> r.rest]
        ELSE IF s # <<>> /\ Head(s) = ")"
        THEN [ok |-> TRUE, times |-> <<>>, rest |-> Tail(s)]
        ELSE [ok |-> FALSE, times |-> <<>>, rest |-> s]

\* line 654: (?:\(...\))*, all the captures of group 3
RECURSIVE ParenTimes(_)
ParenTimes(s) ==
    IF s # <<>> /\ Head(s) = "("
    THEN LET r == ParenBody(Tail(s))
         IN  IF r.ok THEN r.times \o ParenTimes(r.rest) ELSE <<>>
    ELSE <<>>

\* lines 654-662: regex.match on one event and the captures of its groups:
\* the name, the digits of the occurrence count (one capture per digit) and
\* the minute markers
ParseEvent(event) ==
    LET n == NameLen(event, 1)
        after == SkipSpaces(SubSeq(event, n + 1, Len(event)))
        occurences == DigitPrefix(after)
    IN  [matched |-> n > 0,
         name |-> SubSeq(event, 1, n),
         occurences |-> [i \in 1..Len(occurences) |-> <<occurences[i]>>],
         times |-> ParenTimes(SubSeq(after, Len(occurences) + 1, Len(after)))]

Max(a, b) == IF a >= b THEN a ELSE b

\* line 692: the amount added to the player's total for the event type
Amount(occurences, times) == Max(Len(occurences) + 1, Len(times))

\* A scorers cell (.liveTblScorers): its label and its text, <<>> when the
\* page has none. The cells examined:
\*   'Tries'    'J Sa 3'
\*   'Tries'    'Sa 2'
\*   'Tries'    'T (3, 6)'
\*   'Pens'     'J Sa'
\*   'Tries'    'Zed 2'
\*   'Tries'    'J Sa 3, Zed 2'
\*   'Tries'    'none'
\*   'Subs'     'T'
\*   ''         'T'
\*   'Cons'     'K Sa 12'
\*   'Drops\n'  'T 2 (5)'
ScorerCells ==
    {[label |-> <<"T", "r", "i", "e", "s">>, data |-> <<"J", " ", "S", "a", " ", "3">>],
     [label |-> <<"T", "r", "i", "e", "s">>, data |-> <<"S", "a", " ", "2">>],
     [label |-> <<"T", "r", "i", "e", "s">>, data |-> <<"T", " ", "(", "3", ",", " ", "6", ")">>],
     [label |-> <<"P", "e", "n", "s">>, data |-> <<"J", " ", "S", "a">>],
     [label |-> <<"T", "r", "i", "e", "s">>, data |-> <<"Z", "e", "d", " ", "2">>],
     [label |-> <<"T", "r", "i", "e", "s">>, data |-> <<"J", " ", "S", "a", " ", "3", ",", " ", "Z", "e", "d", " ", "2">>],
     [label |-> <<"T", "r", "i", "e", "s">>, data |-> <<"n", "o", "n", "e">>],
     [label |-> <<"S", "u", "b", "s">>, data |-> <<"T">>],
     [label |-> <<>>, data |-> <<"T">>],
     [label |-> <<"C", "o", "n", "s">>, data |-> <<"K", " ", "S", "a", " ", "1", "2">>],
     [label |-> <<"D", "r", "o", "p", "s", "\n">>, data |-> <<"T", " ", "2", " ", "(", "5", ")">>]}

\* most scorers cells on a match page
MaxCells == 2

\* lines 621-637: the events of a cell, none when the cell is skipped
CellEvents(cell) ==
    IF cell.label = <<>> \/ cell.data = <<>> THEN <<>>
    ELSE IF EventType(cell.label) = "" THEN <<>>
    ELSE IF Clean(cell.data) = <<"n", "o", "n", "e">> THEN <<>>
    ELSE LET list == SplitEvents(Clean(cell.data), <<>>)
         IN  [i \in 1..Len(list) |-> Strip(list[i])]

\* lines 653-692 for one event: what is added to team_scores, under the
\* player id found (<<>> for None), with the minute markers
EventAdd(roster, type, event) ==
    LET parsed == ParseEvent(event)
        name == Strip(parsed.name)
    IN  IF ~parsed.matched THEN <<>>
        ELSE <<[player |-> GetPlayerIdFromName(name, roster), type |-> type,
                name |-> name, event |-> event,
                n |-> Amount(parsed.occurences, parsed.times),
                times |-> parsed.times]>>

RECURSIVE Flatten(_)
Flatten(lists) ==
    IF lists = <<>> THEN <<>> ELSE Head(lists) \o Flatten(Tail(lists))

\* lines 621-692 for the cells of one team
CellAdds(roster, cell) ==
    LET events == CellEvents(cell)
    IN  Flatten([i \in 1..Len(events) |->
                    EventAdd(roster, EventType(cell.label), events[i])])

\* line 621: scores[index::2]
TeamCells(cells, index) ==
    LET n == (Len(cells) - index + 1) \div 2
    IN  [j \in 1..n |-> cells[index + 2 * j - 1]]

TeamAdds(roster, cells, index) ==
    LET own == TeamCells(cells, index)
    IN  Flatten([j \in 1..Len(own) |-> CellAdds(roster, own[j])])

\* lines 678-690: the GameEvent items of one addition
GameEvents(m, index, add) ==
    IF add.player = <<>> THEN <<>>
    ELSE [i \in 1..Len(add.times) |->
            [kind |-> "GameEvent", player_id |-> add.player[1],
             team_id |-> TeamId(m, index), match_id |-> m.id,
             time |-> add.times[i], action_type |-> add.type]]

\* the keys of team_scores, in insertion order
RECURSIVE Keys(_, _)
Keys(adds, seen) ==
    IF adds = <<>> THEN <<>>
    ELSE IF Head(adds).player \in seen THEN Keys(Tail(adds), seen)
    ELSE <<Head(adds).player>> \o Keys(Tail(adds), seen \cup {Head(adds).player})

RECURSIVE Total(_, _, _)
Total(adds, players, type) ==
    IF adds = <<>> THEN 0
    ELSE (IF Head(adds).player \in players /\ Head(adds).type = type
          THEN Head(adds).n ELSE 0)
         + Total(Tail(adds), players, type)

\* team_scores[player_id], as a record of its event types
PlayerScore(adds, player) ==
    [t \in {adds[i].type : i \in {i \in 1..Len(adds) : adds[i].player = player}} |->
        Total(adds, {player}, t)]

\* lines 696-707: the PlayerStats items of one team
TeamPlayerStats(m, index, adds) ==
    LET keys == SelectSeq(Keys(adds, {}), LAMBDA k : k # <<>>)
    IN  [i \in 1..Len(keys) |->
            [kind |-> "PlayerStats", player_id |-> keys[i][1],
             team_id |-> TeamId(m, index), match_id |-> m.id,
             first_team |-> FALSE, scores |-> PlayerScore(adds, keys[i])]]

\* lines 710-713: scores_summary, the sum over every value of team_scores
ScoresSummary_Resolved(adds) ==
    [t \in Range(ScoreTypes) |->
        Total(adds, {adds[i].player : i \in 1..Len(adds)} \ {<<>>}, t)]
ScoresSummary(adds) ==
    [t \in Range(ScoreTypes) |->
        Total(adds, {adds[i].player : i \in 1..Len(adds)}, t)]

\* lines 715-722: the MatchStats items of the scorers summary of one team
ScorerMatchStats_None(m, ms, index, adds) == <<>>
ScorerMatchStats(m, ms, index, adds) ==
    <<MatchStatsItem(m, TeamId(m, index),
                     IF index = 0 THEN ms.scored ELSE ms.conceded,
                     IF index = 0 THEN ms.conceded ELSE ms.scored,
                     ScoresSummary(adds))>>

\* lines 619-722 for one team
TeamItems(m, ms, index, adds) ==
    [adds |-> adds,
     items |-> Flatten([i \in 1..Len(adds) |-> GameEvents(m, index, adds[i])])
               \o TeamPlayerStats(m, index, adds)
               \o ScorerMatchStats(m, ms, index, adds)]
TeamScorers(m, ms, rosters, cells, index) ==
    TeamItems(m, ms, index, TeamAdds(rosters[Side(index)], cells, index))

\* lines 615-722
BothTeams(h, a) ==
    [ran |-> TRUE, adds |-> <<h.adds, a.adds>>, items |-> h.items \o a.items]
ScorersStage(m, ms, rosters, cells) ==
    IF Len(cells) > 1
    THEN BothTeams(TeamScorers(m, ms, rosters, cells, 0),
                   TeamScorers(m, ms, rosters, cells, 1))
    ELSE [ran |-> FALSE, adds |-> <<<<>>, <<>>>>, items |-> <<>>]

ScorersEnd(cells, r) ==
    EndStage("scorers", [cells |-> cells, ran |-> r.ran, adds |-> r.adds],
             r.items, "match stats", FALSE)

Scorers(cells) ==
    /\ pc = "scorers"
    /\ ScorersEnd(cells, ScorersStage(match, match_stats, player_dict, cells))
    /\ UNCHANGED <<match, match_stats, player_dict, tabs>>
    /\ UNCHANGED crawlVars

\* ------------------------------------------------------------------------
\* Tables and the regular expressions of the statistics tabs

\* A table row (a tr element) is the list of the texts of its cells: row[n]
\* is the first text node of td:nth-child(n), <<>> when there is none
Cell(row, n) == IF n <= Len(row) THEN row[n] ELSE <<>>

\* A pattern is a list of literal texts and of groups: Number is ([0-9]+),
\* captured whole; DigitRepeat is ([0-9])+, whose first capture is the first
\* digit of the run
Number == <<"([0-9]+)">>
DigitRepeat == <<"([0-9])+">>

NoMatch == [ok |-> FALSE, captures |-> <<>>, rest |-> <<>>]

Captured(capture, m) ==
    IF m.ok
    THEN [ok |-> TRUE, captures |-> <<capture>> \o m.captures, rest |-> m.rest]
    ELSE NoMatch

\* regex.match(pattern, s): the first capture of each group, and the text
\* left after the match
RECURSIVE MatchPattern(_, _)
MatchPattern(s, pattern) ==
    IF pattern = <<>> THEN [ok |-> TRUE, captures |-> <<>>, rest |-> s]
    ELSE IF Head(pattern) \in {Number, DigitRepeat}
    THEN IF DigitPrefix(s) = <<>> THEN NoMatch
         ELSE Captured(IF Head(pattern) = Number
                       THEN DigitPrefix(s) ELSE <<Head(s)>>,
                       MatchPattern(SubSeq(s, Len(DigitPrefix(s)) + 1, Len(s)),
                                    Tail(pattern)))
    ELSE IF StartsWith(s, Head(pattern))
    THEN MatchPattern(SubSeq(s, Len(Head(pattern)) + 1, Len(s)), Tail(pattern))
    ELSE NoMatch

\* "$": the end of the text, or the newline that ends it
AtEnd(s) == s = <<>> \/ s = <<"\n">>

\* regex.match of a pattern that ends with "$" when it is anchored
Match(s, pattern, anchored) ==
    IF anchored /\ ~AtEnd(MatchPattern(s, pattern).rest)
    THEN NoMatch ELSE MatchPattern(s, pattern)

NoFields == [exc |-> FALSE, fields |-> <<>>]

\* the fields filled from the captures of a match, none without a match
CaptureFields(m, names, order) ==
    IF m.ok
    THEN [exc |-> FALSE,
          fields |-> [i \in 1..Len(names) |->
                        <<names[i], IntOfDigits(m.captures[order[i]])>>]]
    ELSE NoFields

\* int(value) stored under a name: ValueError unless value is an integer
IntField(name, value) ==
    IF IsInt(value)
    THEN [exc |-> FALSE, fields |-> <<<<name, PyInt(value)>>>>]
    ELSE [exc |-> TRUE, fields |-> <<>>]

\* what two steps in a row fill: the second is not run if the first raised
Then(first, second) ==
    IF first.exc THEN first
    ELSE [exc |-> second.exc, fields |-> first.fields \o second.fields]

\* ------------------------------------------------------------------------
\* The "Match stats" tab: _parse_match_stats (lines 238-335) and lines
\* 724-739

\* lines 278-289: the metrics stored with int(value)
codes ==
    <<[title |-> <<"K", "i", "c", "k", "s", " ", "f", "r", "o", "m", " ", "h", "a", "n", "d">>,
       metric |-> "kicks"],
      [title |-> <<"P", "a", "s", "s", "e", "s">>,
       metric |-> "passes"],
      [title |-> <<"R", "u", "n", "s">>,
       metric |-> "runs"],
      [title |-> <<"M", "e", "t", "r", "e", "s", " ", "r", "u", "n", " ", "w", "i", "t", "h", " ", "b", "a", "l", "l">>,
       metric |-> "meters"],
      [title |-> <<"C", "l", "e", "a", "n", " ", "b", "r", "e", "a", "k", "s">>,
       metric |-> "breaks"],
      [title |-> <<"D", "e", "f", "e", "n", "d", "e", "r", "s", " ", "b", "e", "a", "t", "e", "n">>,
       metric |-> "def_beaten"],
      [title |-> <<"O", "f", "f", "l", "o", "a", "d", "s">>,
       metric |-> "offloads"],
      [title |-> <<"T", "u", "r", "n", "o", "v", "e", "r", "s", " ", "c", "o", "n", "c", "e", "d", "e", "d">>,
       metric |-> "turnovers"],
      [title |-> <<"P", "e", "n", "a", "l", "t", "i", "e", "s", " ", "c", "o", "n", "c", "e", "d", "e", "d">>,
       metric |-> "pens_conceded"]>>

IsCode(title) == \E i \in 1..Len(codes) : codes[i].title = title
CodeOf(title) == codes[CHOOSE i \in 1..Len(codes) : codes[i].title = title].metric

\* lines 259-263 and 292-332: the metrics read with a regular expression,
\* by the title of the row; `order` gives the group stored under each name
StatPatterns ==
    <<[title |-> <<"P", "e", "n", "a", "l", "t", "y", " ", "g", "o", "a", "l", "s">>,
       pattern |-> <<Number, <<" ", "f", "r", "o", "m", " ">>, Number>>,
       anchored |-> FALSE, names |-> <<"pens_attempt">>, order |-> <<2>>],
      [title |-> <<"R", "u", "c", "k", "s", " ", "w", "o", "n">>,
       pattern |-> <<<<"\n">>, Number, <<" ", "f", "r", "o", "m", " ">>, Number>>,
       anchored |-> FALSE, names |-> <<"rucks_init", "rucks_won">>, order |-> <<2, 1>>],
      [title |-> <<"M", "a", "u", "l", "s", " ", "w", "o", "n">>,
       pattern |-> <<<<"\n">>, Number, <<" ", "f", "r", "o", "m", " ">>, Number>>,
       anchored |-> FALSE, names |-> <<"mall_init", "mall_won">>, order |-> <<2, 1>>],
      [title |-> <<"T", "a", "c", "k", "l", "e", "s", " ", "m", "a", "d", "e", "/", "m", "i", "s", "s", "e", "d">>,
       pattern |-> <<Number, <<"/">>, Number>>,
       anchored |-> TRUE, names |-> <<"tackles_made", "tackles_missed">>, order |-> <<1, 2>>],
      [title |-> <<"S", "c", "r", "u", "m", "s", " ", "o", "n", " ", "o", "w", "n", " ", "f", "e", "e", "d">>,
       pattern |-> <<<<"\n", "\t", " ", " ">>, Number, <<" ", "w", "o", "n", ",", " ">>, Number, <<" ", "l", "o", "s", "t">>>>,
       anchored |-> FALSE, names |-> <<"scrums_won_on_feed", "scrums_lost_on_feed">>, order |-> <<1, 2>>],
      [title |-> <<"L", "i", "n", "e", "o", "u", "t", "s", " ", "o", "n", " ", "o", "w", "n", " ", "t", "h", "r", "o", "w">>,
       pattern |-> <<<<"\n", "\t", " ", " ">>, Number, <<" ", "w", "o", "n", ",", " ">>, Number, <<" ", "l", "o", "s", "t">>>>,
       anchored |-> FALSE, names |-> <<"lineouts_won_on_throw", "lineouts_lost_on_throw">>, order |-> <<1, 2>>],
      [title |-> <<"Y", "e", "l", "l", "o", "w", "/", "r", "e", "d", " ", "c", "a", "r", "d", "s">>,
       pattern |-> <<Number, <<"/">>, Number>>,
       anchored |-> TRUE, names |-> <<"yellow_cards", "red_cards">>, order |-> <<1, 2>>]>>

IsStatPattern(title) ==
    \E i \in 1..Len(StatPatterns) : StatPatterns[i].title = title
StatPatternOf(title) ==
    StatPatterns[CHOOSE i \in 1..Len(StatPatterns) : StatPatterns[i].title = title]

DroppedGoals == <<"D", "r", "o", "p", "p", "e", "d", " ", "g", "o", "a", "l", "s">>

\* lines 265-276: "([0-9]+)( \(([0-9]+) missed\))?"
DropsAttempt(scored, missed) ==
    IF ~scored.ok THEN NoFields
    ELSE [exc |-> FALSE,
          fields |-> <<<<"drops_attempt",
                         IntOfDigits(scored.captures[1])
                         + IF missed.ok THEN IntOfDigits(missed.captures[1]) ELSE 0>>>>]

\* lines 257-332 for one team: the metrics of a row of the given title
TeamStat(title, value) ==
    IF IsCode(title) THEN IntField(CodeOf(title), value)
    ELSE IF title = DroppedGoals
    THEN DropsAttempt(MatchPattern(value, <<Number>>),
                      MatchPattern(MatchPattern(value, <<Number>>).rest,
                                   <<<<" ", "(">>, Number, <<" ", "m", "i", "s", "s", "e", "d", ")">>>>))
    ELSE IF IsStatPattern(title)
    THEN CaptureFields(Match(value, StatPatternOf(title).pattern,
                             StatPatternOf(title).anchored),
                       StatPatternOf(title).names, StatPatternOf(title).order)
    ELSE NoFields

\* lines 248-254: a row without a title or without both values is skipped
RowStat(row, index) ==
    IF Cell(row, 2) = <<>> \/ Cell(row, 1) = <<>> \/ Cell(row, 3) = <<>>
    THEN NoFields
    ELSE TeamStat(Cell(row, 2), Cell(row, IF index = 0 THEN 1 ELSE 3))

\* lines 247-335 and 731-733 for one team: what is added to its loader, from
\* row k on
RECURSIVE TeamStats(_, _, _)
TeamStats(rows, index, k) ==
    IF k > Len(rows) THEN NoFields
    ELSE Then(RowStat(rows[k], index), TeamStats(rows, index, k + 1))

\* lines 735-739
MatchExtraStatsItem(m, index, fields) ==
    [kind |-> "MatchExtraStats", match_id |-> m.id, team_id |-> TeamId(m, index),
     fields |-> fields]

StatsItems(m, h, a) ==
    IF h.exc \/ a.exc THEN [items |-> <<>>, exc |-> TRUE]
    ELSE [items |-> <<MatchExtraStatsItem(m, 0, h.fields),
                      MatchExtraStatsItem(m, 1, a.fields)>>,
          exc |-> FALSE]

\* lines 724-739
MatchStatsStage(m, t) ==
    IF MatchStatsTitle \notin DOMAIN t THEN [items |-> <<>>, exc |-> FALSE]
    ELSE StatsItems(m, TeamStats(t[MatchStatsTitle], 0, 1),
                       TeamStats(t[MatchStatsTitle], 1, 1))

MatchStatsEnd(r) ==
    EndStage("match stats",
             IF MatchStatsTitle \in DOMAIN tabs THEN tabs[MatchStatsTitle] ELSE <<>>,
             r.items, "player stats", r.exc)

MatchStats ==
    /\ pc = "match stats"
    /\ MatchStatsEnd(MatchStatsStage(match, tabs))
    /\ UNCHANGED <<match, match_stats, player_dict, tabs>>
    /\ UNCHANGED crawlVars

\* ------------------------------------------------------------------------
\* The "{team} stats" tabs: _parse_player_stats (lines 338-464) and lines
\* 741-750

\* line 742: regex.search("^[a-zA-Z ]+ stats$", title)
StatsTitle(title) ==
    LET t == IF title # <<>> /\ title[Len(title)] = "\n"
             THEN SubSeq(title, 1, Len(title) - 1) ELSE title
        suffix == <<" ", "s", "t", "a", "t", "s">>
    IN  /\ Len(t) > Len(suffix)
        /\ SubSeq(t, Len(t) - Len(suffix) + 1, Len(t)) = suffix
        /\ \A i \in 1..Len(t) : IsLetter(t[i]) \/ t[i] = " "

\* lines 378-462: what is read from the cells td:nth-child(3) to (14)
PlayerColumns ==
    <<[int |-> FALSE, pattern |-> <<Number, <<"/">>, DigitRepeat>>,
       anchored |-> TRUE, names |-> <<"tries", "assists">>],
      [int |-> TRUE, pattern |-> <<>>,
       anchored |-> FALSE, names |-> <<"points">>],
      [int |-> FALSE, pattern |-> <<Number, <<"/">>, Number, <<"/">>, Number>>,
       anchored |-> TRUE, names |-> <<"kicks", "passes", "runs">>],
      [int |-> TRUE, pattern |-> <<>>,
       anchored |-> FALSE, names |-> <<"meters">>],
      [int |-> TRUE, pattern |-> <<>>,
       anchored |-> FALSE, names |-> <<"breaks">>],
      [int |-> TRUE, pattern |-> <<>>,
       anchored |-> FALSE, names |-> <<"def_beaten">>],
      [int |-> TRUE, pattern |-> <<>>,
       anchored |-> FALSE, names |-> <<"offloads">>],
      [int |-> TRUE, pattern |-> <<>>,
       anchored |-> FALSE, names |-> <<"turnovers">>],
      [int |-> FALSE, pattern |-> <<Number, <<"/">>, Number>>,
       anchored |-> FALSE, names |-> <<"tackles_made", "tackles_missed">>],
      [int |-> FALSE, pattern |-> <<Number, <<"/">>, Number>>,
       anchored |-> TRUE, names |-> <<"lineouts_won_on_throw", "lineouts_stolen_from_opp">>],
      [int |-> TRUE, pattern |-> <<>>,
       anchored |-> FALSE, names |-> <<"pens_conceded">>],
      [int |-> FALSE, pattern |-> <<Number, <<"/">>, Number>>,
       anchored |-> FALSE, names |-> <<"yellow_cards", "red_cards">>]>>
FirstColumn == 3
LastColumn == 14

\* lines 379-462 for the cell of column n
ColumnStat(n, text) ==
    LET c == PlayerColumns[n - FirstColumn + 1]
    IN  IF text = <<>> THEN NoFields
        ELSE IF c.int THEN IntField(c.names[1], text)
        ELSE CaptureFields(Match(text, c.pattern, c.anchored), c.names,
                           [i \in 1..Len(c.names) |-> i])

\* lines 378-462, from column n on
RECURSIVE ColumnStats(_, _)
ColumnStats(row, n) ==
    IF n > LastColumn THEN NoFields
    ELSE Then(ColumnStat(n, Cell(row, n)), ColumnStats(row, n + 1))

\* lines 362-375: the player and the team a row is attributed to, <<>> when
\* the name resolves in both rosters or in none
Attribution(m, home, away) ==
    IF home # <<>> /\ away # <<>> THEN <<>>
    ELSE IF home # <<>> THEN <<[player_id |-> home[1], team_id |-> m.home_team_id]>>
    ELSE IF away # <<>> THEN <<[player_id |-> away[1], team_id |-> m.away_team_id]>>
    ELSE <<>>

\* lines 746-750
PlayerExtraStatsItems(m, who, stats) ==
    IF stats.exc THEN <<>>
    ELSE <<[kind |-> "PlayerExtraStats", match_id |-> m.id,
            player_id |-> who.player_id, team_id |-> who.team_id,
            fields |-> stats.fields]>>

RowResult(m, who, stats) ==
    IF who = <<>> THEN [items |-> <<>>, exc |-> FALSE]
    ELSE [items |-> PlayerExtraStatsItems(m, who[1], stats), exc |-> stats.exc]

\* lines 338-464 and 744-750 for one row
ParsePlayerStats(m, rosters, row) ==
    IF Cell(row, 2) = <<>> THEN [items |-> <<>>, exc |-> FALSE]
    ELSE RowResult(m,
                   Attribution(m, GetPlayerIdFromName(Cell(row, 2), rosters.home),
                                  GetPlayerIdFromName(Cell(row, 2), rosters.away)),
                   ColumnStats(row, FirstColumn))

RowsThen(first, rest) ==
    [items |-> first.items \o rest.items, exc |-> rest.exc]

\* lines 743-750: the loop over the rows, from row k on, up to the first
\* exception
RECURSIVE PlayerRows(_, _, _, _)
PlayerRows(m, rosters, rows, k) ==
    IF k > Len(rows) THEN [items |-> <<>>, exc |-> FALSE]
    ELSE IF ParsePlayerStats(m, rosters, rows[k]).exc
    THEN [items |-> <<>>, exc |-> TRUE]
    ELSE RowsThen(ParsePlayerStats(m, rosters, rows[k]),
                  PlayerRows(m, rosters, rows, k + 1))

\* line 742: the rows of the tabs whose title matches, in the order of the
\* tabs on the page
RECURSIVE StatsRows(_, _)
StatsRows(t, k) ==
    IF k > Len(TabOrder) THEN <<>>
    ELSE (IF TabOrder[k] \in DOMAIN t /\ StatsTitle(TabOrder[k])
          THEN t[TabOrder[k]] ELSE <<>>)
         \o StatsRows(t, k + 1)

\* lines 741-750
PlayerStatsStage(m, rosters, t) == PlayerRows(m, rosters, StatsRows(t, 1), 1)

PlayerStatsEnd(r) ==
    EndStage("player stats", StatsRows(tabs, 1), r.items, "done", r.exc)

PlayerStats ==
    /\ pc = "player stats"
    /\ PlayerStatsEnd(PlayerStatsStage(match, player_dict, tabs))
    /\ UNCHANGED <<match, match_stats, player_dict, tabs>>
    /\ UNCHANGED crawlVars

MatchInit ==
    /\ categories = InitCategories
    /\ inflight = {}
    /\ requested = [c \in Range(InitCategories) |-> <<>>]
    /\ closed = FALSE
    /\ out = NoOut
    /\ pc = "venue"
    /\ match \in ForwardedMatches
    /\ emitted = <<>>
    /\ match_stats = [scored |-> 0, conceded |-> 0]
    /\ player_dict = [home |-> <<>>, away |-> <<>>]
    /\ tabs = <<>>
    /\ raised = FALSE
    /\ stage = NoStage

\* the line-ups of the match pages: the .divTeams blocks of one or two teams
TeamsTabs == SeqsUpTo(Lineups, 2) \ {<<>>}

\* the scorers cells of the match pages
ScorerTabs == SeqsUpTo(ScorerCells, MaxCells)

\* The pages on which every stage of the extraction is followed: a few
\* line-ups (a full row has an id and a name) and a few scorers cells
FullRow == [id |-> TRUE, name |-> TRUE]
PageLineups ==
    {<<>>, <<FullRow>>, <<FullRow, FullRow>>,
     <<[id |-> FALSE, name |-> FALSE], FullRow>>,
     <<[id |-> FALSE, name |-> TRUE], FullRow>>,
     <<[id |-> TRUE, name |-> FALSE], FullRow>>}
PageTeamsTabs == {<<l>> : l \in PageLineups} \cup (PageLineups \X PageLineups)
PageScorerTabs ==
    {cells \in ScorerTabs :
        \A i \in 1..Len(cells) :
            cells[i].data \in {<<"J", " ", "S", "a", " ", "3">>,
                               <<"T", " ", "(", "3", ",", " ", "6", ")">>,
                               <<"Z", "e", "d", " ", "2">>}}

\* the rows of the "Match stats" tab on the pages examined:
\*   no row
\*   '12' 'Passes' '7'
\*   'n/a' 'Passes' '7'
\*   '5/2' 'Tackles made/missed' '3/1'   and   '250' 'Metres run with ball' '190'
\*   '12' 'Passes' '7'   and   (no text) 'Runs' '3'
PageStats ==
    {<<>>,
     <<<<<<"1", "2">>, <<"P", "a", "s", "s", "e", "s">>, <<"7">>>>>>,
     <<<<<<"n", "/", "a">>, <<"P", "a", "s", "s", "e", "s">>, <<"7">>>>>>,
     <<<<<<"5", "/", "2">>, <<"T", "a", "c", "k", "l", "e", "s", " ", "m", "a", "d", "e", "/", "m", "i", "s", "s", "e", "d">>, <<"3", "/", "1">>>>,
       <<<<"2", "5", "0">>, <<"M", "e", "t", "r", "e", "s", " ", "r", "u", "n", " ", "w", "i", "t", "h", " ", "b", "a", "l", "l">>, <<"1", "9", "0">>>>>>,
     <<<<<<"1", "2">>, <<"P", "a", "s", "s", "e", "s">>, <<"7">>>>, <<<<>>, <<"R", "u", "n", "s">>, <<"3">>>>>>}

\* the rows of the "W stats" tab on the pages examined:
\*   no row
\*   '1' 'Ball' '2/13' '10'
\*   '1' 'T' '1/0' 'x'
\*   '1' 'Ball' '1/0' '10'   and   '1'   and   '1' 'Zed' '1/0' 'x'
PagePlayers ==
    {<<>>,
     <<<<<<"1">>, <<"B", "a", "l", "l">>, <<"2", "/", "1", "3">>, <<"1", "0">>>>>>,
     <<<<<<"1">>, <<"T">>, <<"1", "/", "0">>, <<"x">>>>>>,
     <<<<<<"1">>, <<"B", "a", "l", "l">>, <<"1", "/", "0">>, <<"1", "0">>>>, <<<<"1">>>>, <<<<"1">>, <<"Z", "e", "d">>, <<"1", "/", "0">>, <<"x">>>>>>}

MatchNext ==
    \/ pc = "venue" /\ \E tokens \in HeadlineTokens : \E notes \in 0..MaxNotes :
                          Venue(tokens, notes)
    \/ Headline
    \/ pc = "teams" /\ \E titles \in SUBSET TabTitles :
          \E lineups \in (IF TeamsTitle \in titles THEN PageTeamsTabs ELSE {<<>>}) :
          \E stats \in (IF MatchStatsTitle \in titles THEN PageStats ELSE {<<>>}) :
          \E players \in (IF TeamStatsTitle \in titles THEN PagePlayers ELSE {<<>>}) :
              Teams(titles, lineups, stats, players)
    \/ pc = "scorers" /\ \E cells \in PageScorerTabs : Scorers(cells)
    \/ MatchStats
    \/ PlayerStats

SpecMatch == MatchInit /\ [][MatchNext]_vars

\* ------------------------------------------------------------------------
\* The scorers summary on its own, for every line-up and every scorers cell
\* within the bounds: the generator has parsed the headline "W 2 - E 1" and
\* a Teams tab that gave two rosters

ScorersInit ==
    /\ categories = InitCategories
    /\ inflight = {}
    /\ requested = [c \in Range(InitCategories) |-> <<>>]
    /\ closed = FALSE
    /\ out = NoOut
    /\ pc = "scorers"
    /\ match \in ForwardedMatches
    /\ raised = FALSE
    /\ tabs = TabsOf({TeamsTitle}, <<>>, <<>>)
    /\ LET h == HeadlineStage(match, <<<<"W", " ", "2", " ", "-", " ", "E", " ", "1">>>>)
       IN  /\ match_stats = h.match_stats
           /\ \E lineups \in TeamsTabs :
                 LET t == TeamsStage(match, {TeamsTitle}, lineups)
                 IN  /\ t.ok
                     /\ player_dict = t.player_dict
                     /\ emitted = Log(h.items \o t.items)
                     /\ stage = [name |-> "teams", input |-> lineups, items |-> t.items]

ScorersNext == \E cells \in ScorerTabs : Scorers(cells)

SpecScorers == ScorersInit /\ [][ScorersNext]_vars

\* ------------------------------------------------------------------------
\* Properties of the crawl

Categories == Range(InitCategories)

InFlightOf(reqs, c) == {r \in reqs : r.home_or_away = c}

\* C1: a list-page response handled when the active-category set is empty
\* afterwards (the response that empties it, or any later one) yields no
\* search request and no match follow-up request.
C1_NoRequestOnceEmpty ==
    (out.op = "list" /\ categories = <<>>) =>
        (out.search = {} /\ out.follow = <<>> /\ inflight = {})

\* C1 witness: the response that empties the set listed a complete match
C1_Witness ==
    /\ out.op = "list" /\ categories = <<>> /\ closed
    /\ \E i \in 1..Len(out.page.entries) : out.page.entries[i] = {}

\* C2: handling a response for category c removes c exactly when the page
\* carries the "No records" marker, leaves the other category's membership
\* and pending page alone, and no category ever comes back.
C2_RemovalOnly ==
    [][ /\ categories' # categories => out'.op = "list"
        /\ out'.op = "list" =>
              LET c == out'.req.home_or_away
              IN  /\ c \in Range(categories)
                  /\ (c \notin Range(categories')) <=> out'.page.norecords
                  /\ \A d \in Categories \ {c} :
                        /\ (d \in Range(categories')) <=> (d \in Range(categories))
                        /\ InFlightOf(inflight', d) = InFlightOf(inflight, d)
                        /\ requested'[d] = requested[d]
        /\ \A d \in Categories :
              d \notin Range(categories) => d \notin Range(categories')
      ]_vars

\* C2 witness: "home" was removed by its "No records" page while "neutral"
\* stays active with a request pending
C2_Witness ==
    /\ out.op = "list" /\ out.req.home_or_away = 1 /\ out.page.norecords
    /\ categories = <<3>>
    /\ InFlightOf(inflight, 3) # {}

\* C3: per category the pages requested are 1, 2, 3, ... in order, at most
\* one search request is outstanding, and page N+1 of c is requested only
\* by the callback handling page N of c, c being active afterwards.
C3_PagesIncrease ==
    /\ \A c \in Categories :
          /\ \A i \in 1..Len(requested[c]) : requested[c][i] = i
          /\ Cardinality(InFlightOf(inflight, c)) <= 1
    /\ (out.op = "list" /\ out.search # {}) =>
          /\ out.search =
                {SearchRequest(out.req.page + 1, out.req.home_or_away)}
          /\ out.req.home_or_away \in Range(categories)
          /\ ~out.page.norecords

\* C3 witness: page 3 of "home" was requested while handling its page 2
C3_Witness ==
    /\ out.op = "list" /\ out.req = SearchRequest(2, 1)
    /\ requested[1] = <<1, 2, 3>>
    /\ SearchRequest(3, 1) \in inflight

\* C19: if every search request issued is answered in the end and each
\* category serves "No records" at some page, the crawl reaches, whatever
\* the interleaving of the two categories, the closed state with no active
\* category, where no search request is outstanding and none is issued any
\* more; the spider closes exactly when the second category reports "No
\* records", not before.
C19_CrawlTerminates ==
    /\ <>[](closed /\ categories = <<>> /\ inflight = {})
    /\ [](closed <=> categories = <<>>)
    /\ [][ /\ closed => (inflight' = {} /\ out'.search = {})
           /\ (closed' /\ ~closed) =>
                 /\ out'.op = "list" /\ out'.page.norecords
                 /\ categories = <<out'.req.home_or_away>>
         ]_vars

\* C19 witness: closed once "home" reported "No records" at its page 3,
\* after "neutral" had done so at its page 1
C19_Witness ==
    /\ closed /\ categories = <<>> /\ inflight = {}
    /\ out.op = "list" /\ out.req = SearchRequest(3, 1) /\ out.page.norecords
    /\ requested[3] = <<1>>

\* ------------------------------------------------------------------------
\* The resolver alone: _get_player_id_from_name applied to a name and the
\* roster of a team

\* most players in a roster
MaxRoster == 3

\* The names looked up:
\*   'Sa'
\*   'J Sa'
\*   'K Sa'
\*   'j  sab '
\*   'Ab'
\*   'Zed'
\*   'J K Sa'
\*   ''
\*   'Jo Sab'
Researched ==
    {<<"S", "a">>,
     <<"J", " ", "S", "a">>,
     <<"K", " ", "S", "a">>,
     <<"j", " ", " ", "s", "a", "b", " ">>,
     <<"A", "b">>,
     <<"Z", "e", "d">>,
     <<"J", " ", "K", " ", "S", "a">>,
     <<>>,
     <<"J", "o", " ", "S", "a", "b">>}

\* The names of the players of a roster:
\*   'J Sa'
\*   'K Sa'
\*   'Sab'
\*   ' Jo Sab'
\*   'Kim Sa'
\*   'sa'
RosterNames ==
    {<<"J", " ", "S", "a">>,
     <<"K", " ", "S", "a">>,
     <<"S", "a", "b">>,
     <<" ", "J", "o", " ", "S", "a", "b">>,
     <<"K", "i", "m", " ", "S", "a">>,
     <<"s", "a">>}

\* a roster is a dict: its keys, the ids of the players, are distinct
ResolverInit ==
    /\ categories = InitCategories
    /\ inflight = {}
    /\ requested = [c \in Range(InitCategories) |-> <<>>]
    /\ closed = FALSE
    /\ out = NoOut
    /\ pc = "resolve"
    /\ match = [keys |-> {}]
    /\ emitted = <<>>
    /\ match_stats = [scored |-> 0, conceded |-> 0]
    /\ player_dict = [home |-> <<>>, away |-> <<>>]
    /\ tabs = <<>>
    /\ raised = FALSE
    /\ \E name \in Researched : \E names \in SeqsUpTo(RosterNames, MaxRoster) :
          stage = [name |-> "resolve",
                   input |-> [name |-> name,
                              team_dic |-> [i \in 1..Len(names) |->
                                              [id |-> 10 + i, name |-> names[i]]]],
                   items |-> <<>>]

\* lines 198-235: the call returns an id, or raises RuntimeError, which
\* every caller catches
Resolve ==
    /\ pc = "resolve"
    /\ pc' = "resolved"
    /\ stage' = [stage EXCEPT !.items =
                    GetPlayerIdFromName(stage.input.name, stage.input.team_dic)]
    /\ UNCHANGED <<match, emitted, match_stats, player_dict, tabs, raised>>
    /\ UNCHANGED crawlVars

SpecResolver == ResolverInit /\ [][Resolve]_vars

\* ------------------------------------------------------------------------
\* Properties of the extraction of a match page

\* the headline is made of exactly two segments, each with a name and a
\* score
HeadlineValid(tokens) ==
    /\ Len(Headlines(tokens)) = 2
    /\ \A i \in 1..2 : ~HeadlineError(Headlines(tokens)[i])

\* the extraction has passed the headline stage: the Match was yielded
HeadlinePassed == \E i \in 1..Len(emitted) : emitted[i].kind = "Match"

\* the number of MatchStats yielded so far for a team
MatchStatsOf(team_id) ==
    Cardinality({i \in 1..Len(emitted) :
                    emitted[i].kind = "MatchStats" /\ emitted[i].team_id = team_id})

\* the MatchStats among the items of the last stage, for the team at `index`
StageMatchStats(index) ==
    SelectSeq(stage.items,
              LAMBDA it : it.kind = "MatchStats" /\ it.team_id = TeamId(match, index))

\* the scorers summary was processed by the last stage
ScorersRan == stage.name = "scorers" /\ stage.input.ran

\* C4: when the headline does not consist of exactly two segments each
\* carrying a name and a score, the extraction of the match page emits no
\* entity of any kind.
C4_NothingOnHeadlineFailure ==
    (pc = "done" /\ stage.name \in {"venue", "headline"}
                 /\ ~HeadlineValid(stage.input))
        => emitted = <<>>

\* C5 as stated: a match page that passes the headline stage gives, over
\* the whole extraction, exactly two MatchStats, one per team.
C5_ExactlyTwo ==
    (pc = "done" /\ HeadlinePassed) =>
        /\ MatchStatsOf(match.home_team_id) = 1
        /\ MatchStatsOf(match.away_team_id) = 1

\* C5 amended: a match page that passes the headline stage gives two
\* MatchStats at the headline, one per team and each the mirror of the
\* other; the scorers summary, when it is processed, gives two more, one per
\* team and again mirrored; no other stage gives any. The extraction so
\* emits two MatchStats, or four once the summary has been processed.
C5_TwoPerEmittingStage ==
    HeadlinePassed =>
        /\ MatchStatsOf(match.home_team_id) = MatchStatsOf(match.away_team_id)
        /\ MatchStatsOf(match.home_team_id) \in {1, 2}
        /\ stage.name \in {"headline", "teams"} =>
              MatchStatsOf(match.home_team_id) = 1
        /\ stage.name = "scorers" =>
              MatchStatsOf(match.home_team_id) = IF stage.input.ran THEN 2 ELSE 1
        /\ (stage.name = "headline" \/ ScorersRan) =>
              /\ Len(StageMatchStats(0)) = 1 /\ Len(StageMatchStats(1)) = 1
              /\ StageMatchStats(0)[1].scored = StageMatchStats(1)[1].conceded
              /\ StageMatchStats(0)[1].conceded = StageMatchStats(1)[1].scored
        /\ stage.name \in {"teams", "match stats", "player stats"} =>
              /\ StageMatchStats(0) = <<>> /\ StageMatchStats(1) = <<>>

\* C5 witness: the extraction ended normally after the scorers summary was
\* processed, with two MatchStats for each team
C5_Witness ==
    /\ pc = "done" /\ ~raised /\ stage.name = "player stats"
    /\ MatchStatsOf(match.home_team_id) = 2
    /\ MatchStatsOf(match.away_team_id) = 2

\* the sum, over the PlayerStats the scorers summary yields for a team, of
\* the player's total for an event type
RECURSIVE PlayerTotals(_, _, _)
PlayerTotals(items, team_id, type) ==
    IF items = <<>> THEN 0
    ELSE (IF /\ Head(items).kind = "PlayerStats"
             /\ Head(items).team_id = team_id
             /\ type \in DOMAIN Head(items).scores
          THEN Head(items).scores[type] ELSE 0)
         + PlayerTotals(Tail(items), team_id, type)

\* the segments of a team whose name was not resolved
Unresolved(adds) == SelectSeq(adds, LAMBDA add : add.player = <<>>)

MaxOfCountAndMarkers(parsed) ==
    Max(IF parsed.occurences = <<>> THEN 1
        ELSE IntOfDigits([i \in 1..Len(parsed.occurences) |-> parsed.occurences[i][1]]),
        Len(parsed.times))

\* C7: for every resolved score segment the amount added to the player's
\* total is max(c, m), c being the value of the occurrence count (1 without
\* one) and m the number of minute markers.
C7_AmountIsMaxOfCountAndMarkers ==
    ScorersRan =>
        \A index \in 0..1 :
            \A i \in 1..Len(stage.input.adds[index + 1]) :
                LET add == stage.input.adds[index + 1][i]
                IN  add.player # <<>> =>
                        add.n = MaxOfCountAndMarkers(ParseEvent(add.event))

\* C8: the extraction of a match page always terminates normally; no
\* exception leaves it.
C8_NeverRaises == ~raised

\* C9: a player row of the Teams tab without a numeric id gives no player
\* request and no PlayerStats, whether or not it has a name, and every
\* other row of the two line-ups is extracted (the rows that have an id
\* have a name too).
C9_RowsWithoutIdSkipped ==
    (/\ stage.name = "teams" /\ TeamsTitle \in DOMAIN tabs /\ Len(stage.input) = 2
     /\ \A index \in 0..1 : \A i \in 1..Len(stage.input[index + 1]) :
           stage.input[index + 1][i].id => stage.input[index + 1][i].name) =>
        \A index \in 0..1 :
            \A i \in 1..Len(stage.input[index + 1]) :
                LET id == RowId(Side(index), i)
                    requested_player ==
                        \E k \in 1..Len(stage.items) :
                            /\ stage.items[k].kind = "PlayerRequest"
                            /\ stage.items[k].id = id
                    player_stats ==
                        \E k \in 1..Len(stage.items) :
                            /\ stage.items[k].kind = "PlayerStats"
                            /\ stage.items[k].player_id = id
                IN  /\ requested_player <=> stage.input[index + 1][i].id
                    /\ player_stats <=> stage.input[index + 1][i].id

\* the stage that emits the entities of a kind, for the kinds that a single
\* stage emits: 1 headline, 2 venue, 3 Teams tab, 4 scorers summary,
\* 5 "Match stats" tab, 6 per-team tabs
StageOfKind ==
    [Team |-> 1, Match |-> 1, Venue |-> 2, PlayerRequest |-> 3, GameEvent |-> 4,
     MatchExtraStats |-> 5, PlayerExtraStats |-> 6]

\* C11: within one match the entities are emitted in stage order: the
\* headline entities (two Team, the Match, two MatchStats partials) before
\* the Venue, then the Teams-tab entities, the scorers entities, the
\* MatchExtraStats and last the PlayerExtraStats.
C11_StageOrder ==
    /\ \A i \in 1..Len(emitted) : \A j \in 1..Len(emitted) :
          (/\ i < j
           /\ emitted[i].kind \in DOMAIN StageOfKind
           /\ emitted[j].kind \in DOMAIN StageOfKind)
          => StageOfKind[emitted[i].kind] <= StageOfKind[emitted[j].kind]
    /\ \A i \in 1..Len(emitted) :
          emitted[i].kind = "Venue" =>
              Cardinality({j \in 1..(i - 1) : emitted[j].kind = "MatchStats"}) = 2

\* the name a "name score" segment carries: its text before the first
\* digit, without the surrounding blanks; and its score: the value of its
\* first run of digits
RECURSIVE SegmentName(_)
SegmentName(s) ==
    IF s = <<>> \/ IsDigit(Head(s)) THEN <<>> ELSE <<Head(s)>> \o SegmentName(Tail(s))
RECURSIVE SegmentScore(_)
SegmentScore(s) ==
    IF IsDigit(Head(s)) THEN IntOfDigits(DigitPrefix(s)) ELSE SegmentScore(Tail(s))

\* the items of a kind among the items of the last stage
StageItems(kind) == SelectSeq(stage.items, LAMBDA it : it.kind = kind)

\* C12: for a headline of two segments that both carry a name and a score,
\* the headline stage yields exactly two Team records, the home id with the
\* name of the first segment and the away id with the name of the second,
\* and two MatchStats partials that mirror each other: the home team's
\* scored and the away team's conceded are the first segment's score, the
\* home team's conceded and the away team's scored are the second's.
C12_TeamsAndMirroredPartials ==
    (stage.name = "headline" /\ HeadlineValid(stage.input)) =>
        LET h == Headlines(stage.input)
            teams == StageItems("Team")
            stats == StageItems("MatchStats")
        IN  /\ Len(teams) = 2
            /\ teams[1].id = match.home_team_id
            /\ teams[1].name = Strip(SegmentName(h[1]))
            /\ teams[2].id = match.away_team_id
            /\ teams[2].name = Strip(SegmentName(h[2]))
            /\ Len(stats) = 2
            /\ stats[1].match_id = match.id /\ stats[2].match_id = match.id
            /\ stats[1].team_id = match.home_team_id
            /\ stats[2].team_id = match.away_team_id
            /\ stats[1].scored = SegmentScore(h[1])
            /\ stats[2].conceded = SegmentScore(h[1])
            /\ stats[1].conceded = SegmentScore(h[2])
            /\ stats[2].scored = SegmentScore(h[2])
            /\ stats[1].summary = <<>> /\ stats[2].summary = <<>>

\* C12 witness: the headline "N Z 12 - E 0" gave the teams "N Z" and "E",
\* 12 scored and 0 conceded by the home team and the reverse for the away
\* team
C12_Witness ==
    /\ stage.name = "headline" /\ HeadlineValid(stage.input)
    /\ StageItems("Team") =
          <<TeamItem(match.home_team_id, <<"N", " ", "Z">>),
            TeamItem(match.away_team_id, <<"E">>)>>
    /\ StageItems("MatchStats") =
          <<MatchStatsItem(match, match.home_team_id, 12, 0, <<>>),
            MatchStatsItem(match, match.away_team_id, 0, 12, <<>>)>>

\* ------------------------------------------------------------------------
\* Properties of the resolver

\* the tokens of a name, upper-cased and without surrounding blanks
NameTokens(name) == Split(Strip(Upper(name)), <<" ">>)

\* `sub` occurs in `s`
Occurs(sub, s) ==
    \E k \in 0..(Len(s) - Len(sub)) : SubSeq(s, k + 1, k + Len(sub)) = sub

\* the players whose last name token contains the last token of the query
Candidates(name, team_dic) ==
    {i \in 1..Len(team_dic) :
        Occurs(NameTokens(name)[Len(NameTokens(name))],
               NameTokens(team_dic[i].name)[Len(NameTokens(team_dic[i].name))])}

\* the candidates with the initial of the query's first token and exactly
\* its last token
Survivors(name, team_dic) ==
    {i \in Candidates(name, team_dic) :
        /\ NameTokens(team_dic[i].name)[1][1] = NameTokens(name)[1][1]
        /\ NameTokens(team_dic[i].name)[Len(NameTokens(team_dic[i].name))]
              = NameTokens(name)[Len(NameTokens(name))]}

\* the id of the only player of a set of one
TheId(players, team_dic) == <<team_dic[CHOOSE i \in players : TRUE].id>>

\* the outcome the algorithm specifies
Resolved(name, team_dic) ==
    IF Cardinality(Candidates(name, team_dic)) = 0 THEN <<>>
    ELSE IF Cardinality(Candidates(name, team_dic)) = 1
    THEN TheId(Candidates(name, team_dic), team_dic)
    ELSE IF Len(NameTokens(name)) = 1 THEN <<>>
    ELSE IF Cardinality(Survivors(name, team_dic)) = 1
    THEN TheId(Survivors(name, team_dic), team_dic)
    ELSE <<>>

\* C13: for every name and roster the resolver returns what the algorithm
\* specifies: the candidates are the players whose upper-cased last name
\* token contains the query's upper-cased last token; none gives no id, one
\* is returned; with several, a one-token query gives no id and a
\* multi-token query is narrowed by the initial of the first token and the
\* exact last token, and the survivor is returned only if it is the only
\* one. The id returned is a key of the roster, and never one of two or
\* more remaining candidates.
C13_ResolverFollowsAlgorithm ==
    pc = "resolved" =>
        /\ stage.items = Resolved(stage.input.name, stage.input.team_dic)
        /\ stage.items # <<>> =>
              \E i \in 1..Len(stage.input.team_dic) :
                  stage.items[1] = stage.input.team_dic[i].id
        /\ (/\ Cardinality(Candidates(stage.input.name, stage.input.team_dic)) > 1
            /\ \/ Len(NameTokens(stage.input.name)) = 1
               \/ Cardinality(Survivors(stage.input.name, stage.input.team_dic)) # 1)
              => stage.items = <<>>

\* C13 witness: "J Sa" looked up in the roster J Sa, K Sa, Sab: three
\* candidates, narrowed to the first player
C13_Witness ==
    /\ pc = "resolved"
    /\ stage.input.name = <<"J", " ", "S", "a">>
    /\ Len(stage.input.team_dic) = 3
    /\ Cardinality(Candidates(stage.input.name, stage.input.team_dic)) = 3
    /\ Survivors(stage.input.name, stage.input.team_dic) = {1}
    /\ stage.items = <<11>>

\* ------------------------------------------------------------------------
\* Properties of the player-statistics tabs

\* the name of a row resolves in the roster of exactly one team
ResolvesInOne(row) ==
    /\ Cell(row, 2) # <<>>
    /\ (GetPlayerIdFromName(Cell(row, 2), player_dict.home) # <<>>)
          # (GetPlayerIdFromName(Cell(row, 2), player_dict.away) # <<>>)

\* the player and the team of a row whose name resolves in one roster
OwnerOf(row) ==
    IF GetPlayerIdFromName(Cell(row, 2), player_dict.home) # <<>>
    THEN [player_id |-> GetPlayerIdFromName(Cell(row, 2), player_dict.home)[1],
          team_id |-> match.home_team_id]
    ELSE [player_id |-> GetPlayerIdFromName(Cell(row, 2), player_dict.away)[1],
          team_id |-> match.away_team_id]

\* C14: a row of a per-team tab yields a PlayerExtraStats if and only if
\* its name resolves in the roster of exactly one of the two teams, and the
\* record carries the id found in that roster and the id of that team; a
\* row whose name resolves in both rosters or in none yields nothing.
C14_RecordIffOneRoster ==
    stage.name = "player stats" =>
        LET rows == SelectSeq(stage.input, ResolvesInOne)
        IN  /\ Len(stage.items) = Len(rows)
            /\ \A k \in 1..Len(rows) :
                  /\ stage.items[k].kind = "PlayerExtraStats"
                  /\ stage.items[k].player_id = OwnerOf(rows[k]).player_id
                  /\ stage.items[k].team_id = OwnerOf(rows[k]).team_id

\* a tries/assists cell "A/B": two runs of digits around one "/"
IsTriesAssists(cell) ==
    /\ Len(Split(cell, <<"/">>)) = 2
    /\ \A i \in 1..2 :
          /\ Split(cell, <<"/">>)[i] # <<>>
          /\ \A j \in 1..Len(Split(cell, <<"/">>)[i]) : IsDigit(Split(cell, <<"/">>)[i][j])

\* a record has the field `name` with the value `value`
HasValue(item, name, value) ==
    \E i \in 1..Len(item.fields) : item.fields[i] = <<name, value>>

\* C16: a tries/assists cell "A/B" of a player row gives tries = A and
\* assists = B, also when B has two digits or more ("1/12" gives 12
\* assists).
C16_TriesAndAssists ==
    stage.name = "player stats" =>
        LET rows == SelectSeq(stage.input, ResolvesInOne)
        IN  \A k \in 1..Len(stage.items) :
                IsTriesAssists(Cell(rows[k], 3)) =>
                    /\ HasValue(stage.items[k], "tries",
                                IntOfDigits(Split(Cell(rows[k], 3), <<"/">>)[1]))
                    /\ HasValue(stage.items[k], "assists",
                                IntOfDigits(Split(Cell(rows[k], 3), <<"/">>)[2]))

\* a row of the "Match stats" tab
MatchStatsRow(row) ==
    /\ MatchStatsTitle \in DOMAIN tabs
    /\ \E i \in 1..Len(tabs[MatchStatsTitle]) : tabs[MatchStatsTitle][i] = row

\* C18: the "Match stats" tab is not scanned as a player-statistics tab: no
\* row of it, a row that holds the title of a metric, yields a
\* PlayerExtraStats, whatever the names in the rosters.
C18_NoRecordFromMatchStatsRows ==
    stage.name = "player stats" =>
        LET rows == SelectSeq(stage.input, ResolvesInOne)
        IN  \A k \in 1..Len(stage.items) : ~MatchStatsRow(rows[k])

\* ------------------------------------------------------------------------
\* Properties of the identifiers of the records

\* the ids of the players in the roster of a team
RosterIds(team_id) ==
    IF team_id = match.home_team_id
    THEN {player_dict.home[i].id : i \in 1..Len(player_dict.home)}
    ELSE {player_dict.away[i].id : i \in 1..Len(player_dict.away)}

\* C15: every MatchStats, PlayerStats, GameEvent, MatchExtraStats and
\* PlayerExtraStats carries the id of the match and the id of its home or
\* away team, and every PlayerStats, GameEvent and PlayerExtraStats carries
\* the id of a player in the roster of that team.
C15_IdentifiersOfTheMatch ==
    \A k \in 1..Len(stage.items) :
        LET it == stage.items[k]
        IN  /\ it.kind \in {"MatchStats", "PlayerStats", "GameEvent",
                            "MatchExtraStats", "PlayerExtraStats"} =>
                  /\ it.match_id = match.id
                  /\ it.team_id \in {match.home_team_id, match.away_team_id}
            /\ it.kind \in {"PlayerStats", "GameEvent", "PlayerExtraStats"} =>
                  it.player_id \in RosterIds(it.team_id)

\* ------------------------------------------------------------------------
\* Properties of the list pages

\* C10: a match reference is followed only if every Match field (id,
\* home_team_id, away_team_id, ground_id, match_type, won, date) is present.
C10_AllFieldsOrDiscarded ==
    out.op = "list" =>
        \A i \in 1..Len(out.follow) : MatchFields \subseteq out.follow[i].match.keys

\* C17: with the UI blocks all before the match blocks, the offset is fixed
\* at the first match block, so that the k-th match block is read from link
\* container #k and table row #k, whatever the number of UI blocks (0, 1,
\* 2, ...): no container or row is read twice, and a match is followed at
\* most once.
C17_BlockReadsItsOwnRow ==
    out.op = "list" =>
        /\ \A i \in 1..Len(out.follow) : out.follow[i].read = out.follow[i].block
        /\ \A i \in 1..Len(out.follow) : \A j \in 1..Len(out.follow) :
              i # j => out.follow[i].read # out.follow[j].read

====
